---- MODULE Spec2Model ----
(***************************************************************************)
(* Billing and installment ledger of backend/server.py.                    *)
(*                                                                         *)
(* The state is the content of the MongoDB collections the ledger writes   *)
(* (orders, invoices, payments, installment_schedules, installments,       *)
(* audit_logs) together with the position and local variables of every     *)
(* request handler in flight.  Handlers are coroutines: control can pass   *)
(* to another request at every `await db...`, so every action below is the *)
(* local code of a handler up to and including one database operation.     *)
(*                                                                         *)
(* Money is kept exact: amounts are integers of a unit of which            *)
(* UnitsPerCent make one cent, and the inputs are chosen so that           *)
(* remaining_amount / installments_count is a whole number of units.       *)
(* Time is counted in ticks, TicksPerDay ticks to a calendar day.          *)
(***************************************************************************)
EXTENDS Integers, Sequences, FiniteSets, TLC

(* ------------------------------ bounds --------------------------------- *)
MaxOrders == 1
MaxOps == 3
MaxReqs == 2
MaxNow == 3
\* The money unit is 1 / UnitsPerCent of a cent.
UnitsPerCent == 2
\* The number of installments of the monthly schedules of CalSpec.
MaxMonthly == 3

(* ------------------------- program constants --------------------------- *)
InvoiceStart == 10001
PaymentStart == 20001
DefaultGraceDays == 3
TicksPerDay == 2

(* ------------------------------ inputs --------------------------------- *)
NoDate == [t |-> -1, tz |-> TRUE]
Totals == {12}
PaymentStatuses == {"full", "partial", "unpaid"}
PaymentMethods == {"none", "cash"}
AmountsPaid == {-2, 0, 6, 18}
FirstDueDates == {NoDate, [t |-> 0, tz |-> TRUE], [t |-> 0, tz |-> FALSE]}
ScheduleTypes == {"weekly", "monthly", "custom"}
\* OrderCreate.custom_installments: the list of a custom schedule
CustomLists ==
    { << >>,
      << [amount |-> 4, due_date |-> [t |-> 2, tz |-> TRUE]],
         [amount |-> 8, due_date |-> [t |-> 4, tz |-> TRUE]] >> }
InstallmentCounts == {0, 2}
IntervalDays == {1}
GraceDays == {1}
PayAmounts == {-2, 0, 3, 6, 20}
NewDueDates == {[t |-> 4, tz |-> TRUE]}
StatusInputs == {"pending_approval"}

\* The order record create_invoice_from_order consumes (fields of OrderCreate
\* plus total_amount and status).  Fields the code does not read for a given
\* payment_status or without first_due_date are fixed to one value.
OrderInputs ==
    { o \in [ total_amount : Totals, payment_status : PaymentStatuses,
              payment_method : PaymentMethods, amount_paid : AmountsPaid,
              first_due_date : FirstDueDates, schedule_type : ScheduleTypes,
              installments_count : InstallmentCounts,
              interval_days : IntervalDays, grace_period_days : GraceDays,
              custom_installments : CustomLists ] :
        /\ (o.payment_status # "partial" => o.amount_paid = 0)
        /\ (o.first_due_date = NoDate => o.installments_count = 2)
        /\ (o.payment_status = "unpaid" => o.payment_method = "none")
        /\ (o.first_due_date # NoDate /\ o.payment_status = "partial"
              => o.amount_paid = 6)
        /\ (~o.first_due_date.tz \/ o.installments_count = 0
              => o.payment_status = "unpaid")
        /\ (o.schedule_type = "monthly"
              => /\ o.first_due_date # NoDate
                 /\ o.payment_status = "partial"
                 /\ o.installments_count = 2)
        /\ (o.schedule_type = "custom"
              => /\ o.first_due_date = [t |-> 0, tz |-> TRUE]
                 /\ o.payment_status = "unpaid"
                 /\ o.installments_count = 2)
        /\ (o.schedule_type = "custom" <=> o.custom_installments # << >>) }

ReqIds == 1 .. MaxReqs

VARIABLES orders, invoices, payments, installment_schedules, installments,
          audit_logs, req, now, nOps, issued

vars == << orders, invoices, payments, installment_schedules, installments,
           audit_logs, req, now, nOps, issued >>

db == << orders, invoices, payments, installment_schedules, installments,
         audit_logs >>

(* ------------------------------ helpers -------------------------------- *)
Min(a, b) == IF a <= b THEN a ELSE b

\* Python's max(0, x)
Max0(x) == IF x > 0 THEN x ELSE 0

SetMax(S) == CHOOSE x \in S : \A y \in S : y <= x

Idle == [kind |-> "none", pc |-> "idle", resp |-> "none", arg |-> <<>>, loc |-> <<>>]

\* A handler that has returned or raised: only its request and response stay.
Finished(rq, resp) ==
    [kind |-> rq.kind, pc |-> "done", resp |-> resp, arg |-> <<>>, loc |-> <<>>]

Free(r) == req[r].pc \in {"idle", "done"}

\* A new request is taken by the lowest free handler slot.
CanStart(r) ==
    /\ nOps < MaxOps
    /\ Free(r)
    /\ \A q \in ReqIds : q < r => ~Free(q)

At(r, kind, pc) == req[r].kind = kind /\ req[r].pc = pc

\* The definition of get_next_serial_number in effect when the handlers run
\* (the later of the two module-level definitions): the highest serial_number
\* stored in the collection plus one, default_start when no document of the
\* collection has a serial_number.
get_next_serial_number(collection, default_start) ==
    LET have == { i \in DOMAIN collection :
                    "serial_number" \in DOMAIN collection[i] }
        top == SetMax({ collection[i].serial_number : i \in have })
    IN  IF have # {} /\ top # 0 THEN top + 1 ELSE default_start

\* A split that takes the declared amount_paid of a partial order as it is;
\* C21 does not hold of it.
InitialSplit_Uncapped(order) ==
    IF order.payment_status = "full"
    THEN [paid_amount |-> order.total_amount, remaining_amount |-> 0, status |-> "paid"]
    ELSE IF order.payment_status = "partial"
    THEN [paid_amount |-> order.amount_paid,
          remaining_amount |-> order.total_amount - order.amount_paid,
          status |-> "partial"]
    ELSE [paid_amount |-> 0, remaining_amount |-> order.total_amount, status |-> "pending"]

\* create_invoice_from_order: paid/remaining/status from the order's payment_status
InitialSplit(order) ==
    IF order.payment_status = "full"
    THEN [paid_amount |-> order.total_amount, remaining_amount |-> 0, status |-> "paid"]
    ELSE IF order.payment_status = "partial"
    THEN LET paid == Min(order.amount_paid, order.total_amount)
         IN  [paid_amount |-> paid,
              remaining_amount |-> order.total_amount - paid,
              status |-> "partial"]
    ELSE [paid_amount |-> 0, remaining_amount |-> order.total_amount, status |-> "pending"]

(* ------------------------------ calendar ------------------------------- *)
\* datetime.date() of a tick count
DateOf(t) == t \div TicksPerDay

\* The calendar date of tick 0.
EpochDate == [year |-> 2024, month |-> 1, day |-> 31]

\* datetime's calendar (proleptic Gregorian): leap years, month lengths and
\* the ordinal of a date (days since 0001-01-01, as date.toordinal()).
IsLeapYear(year) == year % 4 = 0 /\ (year % 100 # 0 \/ year % 400 = 0)

DaysInMonth(year, month) ==
    IF month = 2 /\ IsLeapYear(year) THEN 29
    ELSE << 31, 28, 31, 30, 31, 30, 31, 31, 30, 31, 30, 31 >>[month]

DaysBeforeMonth(year, month) ==
    << 0, 31, 59, 90, 120, 151, 181, 212, 243, 273, 304, 334 >>[month]
      + (IF month > 2 /\ IsLeapYear(year) THEN 1 ELSE 0)

DayNumber(d) ==
    LET y == d.year - 1
    IN  y * 365 + y \div 4 - y \div 100 + y \div 400
          + DaysBeforeMonth(d.year, d.month) + d.day

\* datetime accepts the date (datetime.replace raises ValueError otherwise)
ValidDate(d) ==
    /\ d.month \in 1 .. 12
    /\ d.day \in 1 .. DaysInMonth(d.year, d.month)

\* The calendar date of a tick count (the inverse of DayNumber from EpochDate)
CalendarOf(t) ==
    CHOOSE d \in [year : EpochDate.year .. EpochDate.year + 1,
                  month : 1 .. 12, day : 1 .. 31] :
        /\ ValidDate(d)
        /\ DayNumber(d) = DayNumber(EpochDate) + DateOf(t)

\* create_invoice_from_order, monthly branch: the month lengths it uses
MonthLengths(year) ==
    << 31, IF year % 4 = 0 THEN 29 ELSE 28, 31, 30, 31, 30, 31, 31, 30, 31, 30, 31 >>

\* create_invoice_from_order, monthly branch: year, month and day handed to
\* due_date.replace for installment i (0-based)
MonthlyDate(first, i) ==
    LET m == first.month + i
        year == first.year + (m - 1) \div 12
        month == ((m - 1) % 12) + 1
        day == Min(first.day, MonthLengths(year)[month])
    IN  [year |-> year, month |-> month, day |-> day]

\* create_invoice_from_order: computing the due date of installment i raises
\* (ValueError of due_date.replace)
DueDateRaises(first_due_date, schedule_type, i) ==
    /\ schedule_type = "monthly"
    /\ ~ValidDate(MonthlyDate(CalendarOf(first_due_date.t), i))

\* create_invoice_from_order: the due date of installment i (0-based)
InstallmentDueDate(first_due_date, schedule_type, interval_days, i) ==
    IF schedule_type = "monthly"
    THEN LET first == CalendarOf(first_due_date.t)
         IN  [first_due_date EXCEPT
                !.t = @ + (DayNumber(MonthlyDate(first, i)) - DayNumber(first))
                             * TicksPerDay]
    ELSE IF schedule_type = "weekly"
    THEN [first_due_date EXCEPT !.t = @ + i * 7 * TicksPerDay]
    ELSE [first_due_date EXCEPT !.t = @ + i * interval_days * TicksPerDay]

(* ------------------------------- Init ---------------------------------- *)
Init ==
    /\ orders = << >>
    /\ invoices = << >>
    /\ payments = << >>
    /\ installment_schedules = << >>
    /\ installments = << >>
    /\ audit_logs = << >>
    /\ req = [r \in ReqIds |-> Idle]
    /\ now = 0
    /\ nOps = 0
    /\ issued = [invoices |-> << >>, payments |-> << >>]

(* --------------------------- environment ------------------------------- *)
\* The order collaborator hands over an order awaiting approval.
order_submitted(o) ==
    /\ Len(orders) < MaxOrders
    /\ orders' = Append(orders, [status |-> "pending_approval"] @@ o)
    /\ UNCHANGED << invoices, payments, installment_schedules, installments,
                    audit_logs, req, now, nOps, issued >>

\* datetime.now(timezone.utc) returns t: the clock never goes back, and the
\* time that passed since it was read last shows only now.
ClockRead(t) ==
    /\ t \in now .. MaxNow
    /\ now' = t


(* ------------------------------ audit ---------------------------------- *)
\* The member names of the enum AuditLogType.
AuditLogType ==
    { "INVOICE_CREATED", "PAYMENT_RECORDED", "EXPENSE_APPROVED",
      "EXPENSE_REJECTED", "INVOICE_CANCELLED" }

\* create_audit_log: one document appended to audit_logs
create_audit_log(log_type, entity_type, entity_id, amount) ==
    Append(audit_logs, [log_type |-> log_type, entity_type |-> entity_type,
                        entity_id |-> entity_id, amount |-> amount])

(* --------------------------- approve_order ----------------------------- *)
\* POST /orders/{order_id}/approve: find the order, reject unless pending.
approve_order(r, o) ==
    /\ CanStart(r)
    /\ o \in DOMAIN orders
    /\ nOps' = nOps + 1
    /\ LET rq == [kind |-> "approve_order", pc |-> "update_order", resp |-> "none",
                  arg |-> [order_id |-> o],
                  loc |-> [order |-> orders[o], invoice_number |-> 0,
                           invoice_id |-> 0, payment_number |-> 0,
                           schedule_id |-> 0, i |-> 0, invoice_failed |-> FALSE]]
       IN  req' = [req EXCEPT ![r] =
                     IF orders[o].status # "pending_approval"
                     THEN Finished(rq, "400 not pending approval")
                     ELSE rq]
    /\ UNCHANGED << db, now, issued >>

approve_order_update(r) ==
    /\ At(r, "approve_order", "update_order")
    /\ orders' = [orders EXCEPT ![req[r].arg.order_id].status = "approved"]
    /\ req' = [req EXCEPT ![r].pc = "find_updated"]
    /\ UNCHANGED << invoices, payments, installment_schedules, installments,
                    audit_logs, now, nOps, issued >>

\* updated_order = find_one(...); create_invoice_from_order starts with it.
approve_order_find_updated(r) ==
    /\ At(r, "approve_order", "find_updated")
    /\ req' = [req EXCEPT ![r].pc = "invoice_number",
                          ![r].loc.order = orders[req[r].arg.order_id]]
    /\ UNCHANGED << db, now, nOps, issued >>

\* The exception handler of approve_order around create_invoice_from_order:
\* the failure is logged and the approval goes on.
InvoiceFailed(rq) == [rq EXCEPT !.pc = "notify", !.loc.invoice_failed = TRUE]

\* What follows the upfront-payment block of create_invoice_from_order.
AfterUpfront(order) ==
    IF order.first_due_date # NoDate /\ InitialSplit(order).remaining_amount > 0
    THEN "insert_schedule"
    ELSE "audit_invoice"

create_invoice_from_order_number(r) ==
    /\ At(r, "approve_order", "invoice_number")
    /\ LET n == get_next_serial_number(invoices, InvoiceStart)
       IN  /\ req' = [req EXCEPT ![r].pc = "insert_invoice",
                                 ![r].loc.invoice_number = n]
           /\ issued' = [issued EXCEPT !.invoices = Append(@, n)]
    /\ UNCHANGED << db, now, nOps >>

create_invoice_from_order_insert(r) ==
    /\ At(r, "approve_order", "insert_invoice")
    /\ LET order == req[r].loc.order
           split == InitialSplit(order)
       IN  /\ invoices' = Append(invoices,
                 [invoice_number |-> req[r].loc.invoice_number,
                  order_id |-> req[r].arg.order_id,
                  total_amount |-> order.total_amount,
                  paid_amount |-> split.paid_amount,
                  remaining_amount |-> split.remaining_amount,
                  status |-> split.status,
                  payment_method |-> order.payment_method,
                  payments |-> << >>])
           /\ req' = [req EXCEPT
                 ![r].loc.invoice_id = Len(invoices) + 1,
                 ![r].pc = IF split.paid_amount > 0 /\ order.payment_method # "none"
                           THEN "payment_number"
                           ELSE AfterUpfront(order)]
    /\ UNCHANGED << orders, payments, installment_schedules, installments,
                    audit_logs, now, nOps, issued >>

create_invoice_from_order_payment_number(r) ==
    /\ At(r, "approve_order", "payment_number")
    /\ LET n == get_next_serial_number(payments, PaymentStart)
       IN  /\ req' = [req EXCEPT ![r].pc = "insert_payment",
                                 ![r].loc.payment_number = n]
           /\ issued' = [issued EXCEPT !.payments = Append(@, n)]
    /\ UNCHANGED << db, now, nOps >>

create_invoice_from_order_insert_payment(r) ==
    /\ At(r, "approve_order", "insert_payment")
    /\ payments' = Append(payments,
          [payment_number |-> req[r].loc.payment_number,
           invoice_id |-> req[r].loc.invoice_id,
           amount |-> InitialSplit(req[r].loc.order).paid_amount,
           payment_method |-> req[r].loc.order.payment_method])
    /\ req' = [req EXCEPT ![r].pc = "audit_payment"]
    /\ UNCHANGED << orders, invoices, installment_schedules, installments,
                    audit_logs, now, nOps, issued >>

\* create_audit_log(log_type=AuditLogType.PAYMENT_RECEIVED, ...): the enum has
\* no such member, the attribute lookup raises and create_invoice_from_order
\* ends there.
create_invoice_from_order_audit_payment(r) ==
    /\ At(r, "approve_order", "audit_payment")
    /\ IF "PAYMENT_RECEIVED" \in AuditLogType
       THEN /\ audit_logs' = create_audit_log("PAYMENT_RECEIVED", "payment",
                                Len(payments),
                                InitialSplit(req[r].loc.order).paid_amount)
            /\ req' = [req EXCEPT ![r].pc = AfterUpfront(req[r].loc.order)]
       ELSE /\ audit_logs' = audit_logs
            /\ req' = [req EXCEPT ![r] = InvoiceFailed(@)]
    /\ UNCHANGED << orders, invoices, payments, installment_schedules,
                    installments, now, nOps, issued >>

\* The InstallmentSchedule insert, then amount_per_installment =
\* remaining_amount / installments_count (ZeroDivisionError for a count of 0)
\* and the entry of the loop over range(installments_count).
create_invoice_from_order_insert_schedule(r) ==
    /\ At(r, "approve_order", "insert_schedule")
    /\ LET order == req[r].loc.order
       IN  /\ installment_schedules' = Append(installment_schedules,
                 [invoice_id |-> req[r].loc.invoice_id,
                  schedule_type |-> order.schedule_type,
                  total_amount |-> InitialSplit(order).remaining_amount,
                  installments_count |-> order.installments_count,
                  grace_period_days |-> order.grace_period_days,
                  first_due_date |-> order.first_due_date])
           /\ req' = [req EXCEPT ![r] =
                 IF order.installments_count = 0
                 THEN InvoiceFailed(@)
                 ELSE [@ EXCEPT !.loc.schedule_id = Len(installment_schedules) + 1,
                                !.loc.i = 0,
                                !.pc = IF order.installments_count > 0
                                       THEN "insert_installment"
                                       ELSE "audit_invoice"]]
    /\ UNCHANGED << orders, invoices, payments, installments, audit_logs,
                    now, nOps, issued >>

\* One pass of the loop: installment i + 1 is inserted.
create_invoice_from_order_insert_installment(r) ==
    /\ At(r, "approve_order", "insert_installment")
    /\ LET order == req[r].loc.order
           i == req[r].loc.i
           amount_per_installment ==
               InitialSplit(order).remaining_amount \div order.installments_count
       IN  IF DueDateRaises(order.first_due_date, order.schedule_type, i)
           THEN /\ installments' = installments
                /\ req' = [req EXCEPT ![r] = InvoiceFailed(@)]
           ELSE
           /\ installments' = Append(installments,
                 [schedule_id |-> req[r].loc.schedule_id,
                  invoice_id |-> req[r].loc.invoice_id,
                  installment_number |-> i + 1,
                  amount |-> amount_per_installment,
                  paid_amount |-> 0,
                  remaining_amount |-> amount_per_installment,
                  due_date |-> InstallmentDueDate(order.first_due_date,
                                  order.schedule_type, order.interval_days, i),
                  status |-> "upcoming",
                  paid_date |-> -1,
                  payment_ids |-> << >>,
                  rescheduled_from |-> NoDate,
                  reschedule_reason |-> "none",
                  rescheduled_by |-> "none"])
           /\ req' = [req EXCEPT
                 ![r].loc.i = i + 1,
                 ![r].pc = IF i + 1 < order.installments_count
                           THEN "insert_installment"
                           ELSE "audit_invoice"]
    /\ UNCHANGED << orders, invoices, payments, installment_schedules,
                    audit_logs, now, nOps, issued >>

create_invoice_from_order_audit_invoice(r) ==
    /\ At(r, "approve_order", "audit_invoice")
    /\ audit_logs' = create_audit_log("INVOICE_CREATED", "invoice",
                        req[r].loc.invoice_id, req[r].loc.order.total_amount)
    /\ req' = [req EXCEPT ![r].pc = "notify"]
    /\ UNCHANGED << orders, invoices, payments, installment_schedules,
                    installments, now, nOps, issued >>

\* The notification of the rep, then the response.
approve_order_return(r) ==
    /\ At(r, "approve_order", "notify")
    /\ req' = [req EXCEPT ![r] = Finished(@, "200 Order approved successfully")]
    /\ UNCHANGED << db, now, nOps, issued >>


(* ------------------------- update_order_status ------------------------ *)
OrderStatus ==
    {"draft", "pending_approval", "approved", "rejected", "processing",
     "shipped", "delivered"}

\* PATCH /orders/{order_id}/status: find the order, validate the status.
update_order_status(r, o, status) ==
    /\ CanStart(r)
    /\ o \in DOMAIN orders
    /\ nOps' = nOps + 1
    /\ LET rq == [kind |-> "update_order_status", pc |-> "update", resp |-> "none",
                  arg |-> [order_id |-> o, status |-> status],
                  loc |-> [old_status |-> orders[o].status]]
       IN  req' = [req EXCEPT ![r] =
                     IF status \notin OrderStatus
                     THEN Finished(rq, "400 Invalid status")
                     ELSE rq]
    /\ UNCHANGED << db, now, issued >>

update_order_status_update(r) ==
    /\ At(r, "update_order_status", "update")
    /\ orders' = [orders EXCEPT ![req[r].arg.order_id].status = req[r].arg.status]
    /\ req' = [req EXCEPT ![r] = Finished(@, "200 Order status updated")]
    /\ UNCHANGED << invoices, payments, installment_schedules, installments,
                    audit_logs, now, nOps, issued >>

(* --------------------------- create_payment ---------------------------- *)
\* create_payment: the invoice fields written after a payment of `amount`,
\* from the invoice document read at the start of the request.
InvoiceAfterPayment(invoice, amount) ==
    LET new_paid == invoice.paid_amount + amount
        new_remaining == invoice.total_amount - new_paid
    IN  [paid_amount |-> new_paid,
         remaining_amount |-> Max0(new_remaining),
         status |-> IF new_remaining <= 0 THEN "fully_paid" ELSE "partially_paid"]

\* A validation that only rejects amount <= 0 (no comparison with the
\* remaining amount); C7 does not hold of it.
ValidatePayment_PositiveOnly(invoice, amount) ==
    IF amount <= 0 THEN "400 amount must be greater than 0" ELSE "ok"

\* create_payment: the validation of the requested amount ("ok" or the error)
ValidatePayment(invoice, amount) ==
    IF amount > invoice.remaining_amount THEN "400 exceeds remaining amount"
    ELSE IF amount <= 0 THEN "400 amount must be greater than 0"
    ELSE "ok"

\* POST /accounting/payments: find the invoice and validate the amount.
create_payment(r, inv, amount) ==
    /\ CanStart(r)
    /\ inv \in DOMAIN invoices
    /\ nOps' = nOps + 1
    /\ LET rq == [kind |-> "create_payment", pc |-> "payment_number", resp |-> "none",
                  arg |-> [invoice_id |-> inv, amount |-> amount],
                  loc |-> [invoice |-> invoices[inv], payment_number |-> 0,
                           payment_id |-> 0]]
           v == ValidatePayment(invoices[inv], amount)
       IN  req' = [req EXCEPT ![r] = IF v = "ok" THEN rq ELSE Finished(rq, v)]
    /\ UNCHANGED << db, now, issued >>

create_payment_number(r) ==
    /\ At(r, "create_payment", "payment_number")
    /\ LET n == get_next_serial_number(payments, PaymentStart)
       IN  /\ req' = [req EXCEPT ![r].pc = "insert_payment",
                                 ![r].loc.payment_number = n]
           /\ issued' = [issued EXCEPT !.payments = Append(@, n)]
    /\ UNCHANGED << db, now, nOps >>

create_payment_insert(r) ==
    /\ At(r, "create_payment", "insert_payment")
    /\ payments' = Append(payments,
          [payment_number |-> req[r].loc.payment_number,
           invoice_id |-> req[r].arg.invoice_id,
           amount |-> req[r].arg.amount,
           payment_method |-> "cash"])
    /\ req' = [req EXCEPT ![r].pc = "update_invoice",
                          ![r].loc.payment_id = Len(payments) + 1]
    /\ UNCHANGED << orders, invoices, installment_schedules, installments,
                    audit_logs, now, nOps, issued >>

create_payment_update_invoice(r) ==
    /\ At(r, "create_payment", "update_invoice")
    /\ LET set == InvoiceAfterPayment(req[r].loc.invoice, req[r].arg.amount)
           payment_summary == [id |-> req[r].loc.payment_id,
                               payment_number |-> req[r].loc.payment_number,
                               amount |-> req[r].arg.amount]
       IN  invoices' = [invoices EXCEPT ![req[r].arg.invoice_id] =
              [@ EXCEPT !.paid_amount = set.paid_amount,
                        !.remaining_amount = set.remaining_amount,
                        !.status = set.status,
                        !.payments = Append(@, payment_summary)]]
    /\ req' = [req EXCEPT ![r].pc = "audit"]
    /\ UNCHANGED << orders, payments, installment_schedules, installments,
                    audit_logs, now, nOps, issued >>

create_payment_audit(r) ==
    /\ At(r, "create_payment", "audit")
    /\ IF "PAYMENT_RECORDED" \in AuditLogType
       THEN /\ audit_logs' = create_audit_log("PAYMENT_RECORDED", "payment",
                                req[r].loc.payment_id, req[r].arg.amount)
            /\ req' = [req EXCEPT ![r] = Finished(@, "200 Payment recorded successfully")]
       ELSE /\ audit_logs' = audit_logs
            /\ req' = [req EXCEPT ![r] = Finished(@, "500 AttributeError")]
    /\ UNCHANGED << orders, invoices, payments, installment_schedules,
                    installments, now, nOps, issued >>

(* --------------------------- pay_installment --------------------------- *)
\* The requested amount applied as it is, without the cap at the remaining
\* amount; C4 does not hold of it.
AppliedAmount_Uncapped(requested, installment) ==
    requested

\* pay_installment: the amount applied for a requested amount
AppliedAmount(requested, installment) ==
    Min(requested, installment.remaining_amount)

\* pay_installment: the installment fields written, from the installment
\* document read at the start of the request.
InstallmentAfterPayment(installment, amount, at) ==
    LET new_paid == installment.paid_amount + amount
        new_remaining == installment.remaining_amount - amount
        new_status == IF new_remaining <= 0 THEN "paid" ELSE "partial"
    IN  [paid_amount |-> new_paid,
         remaining_amount |-> Max0(new_remaining),
         status |-> new_status,
         paid_date |-> IF new_status = "paid" THEN at ELSE -1]

\* pay_installment: the invoice fields written, from the invoice document
\* read before the payment was inserted.
InvoiceAfterInstallmentPayment(invoice, amount) ==
    LET invoice_new_paid == invoice.paid_amount + amount
        invoice_new_remaining == invoice.remaining_amount - amount
    IN  [paid_amount |-> invoice_new_paid,
         remaining_amount |-> Max0(invoice_new_remaining),
         status |-> IF invoice_new_remaining <= 0 THEN "paid" ELSE "partial"]

\* POST /installments/{installment_id}/pay: find the installment.
pay_installment(r, i, amount) ==
    /\ CanStart(r)
    /\ i \in DOMAIN installments
    /\ nOps' = nOps + 1
    /\ LET rq == [kind |-> "pay_installment", pc |-> "find_invoice", resp |-> "none",
                  arg |-> [installment_id |-> i, amount |-> amount],
                  loc |-> [installment |-> installments[i],
                           amount |-> AppliedAmount(amount, installments[i]),
                           invoice |-> << >>, payment_number |-> 0,
                           payment_id |-> 0]]
       IN  req' = [req EXCEPT ![r] =
                     IF installments[i].status = "paid"
                     THEN Finished(rq, "400 Installment already paid")
                     ELSE rq]
    /\ UNCHANGED << db, now, issued >>

pay_installment_find_invoice(r) ==
    /\ At(r, "pay_installment", "find_invoice")
    /\ req' = [req EXCEPT ![r].pc = "payment_number",
                          ![r].loc.invoice = invoices[req[r].loc.installment.invoice_id]]
    /\ UNCHANGED << db, now, nOps, issued >>

pay_installment_number(r) ==
    /\ At(r, "pay_installment", "payment_number")
    /\ LET n == get_next_serial_number(payments, PaymentStart)
       IN  /\ req' = [req EXCEPT ![r].pc = "insert_payment",
                                 ![r].loc.payment_number = n]
           /\ issued' = [issued EXCEPT !.payments = Append(@, n)]
    /\ UNCHANGED << db, now, nOps >>

pay_installment_insert(r) ==
    /\ At(r, "pay_installment", "insert_payment")
    /\ payments' = Append(payments,
          [payment_number |-> req[r].loc.payment_number,
           invoice_id |-> req[r].loc.installment.invoice_id,
           amount |-> req[r].loc.amount,
           payment_method |-> "cash"])
    /\ req' = [req EXCEPT ![r].pc = "update_installment",
                          ![r].loc.payment_id = Len(payments) + 1]
    /\ UNCHANGED << orders, invoices, installment_schedules, installments,
                    audit_logs, now, nOps, issued >>

pay_installment_update_installment(r) ==
    /\ At(r, "pay_installment", "update_installment")
    /\ \E t \in now .. MaxNow : ClockRead(t)
    /\ LET set == InstallmentAfterPayment(req[r].loc.installment, req[r].loc.amount, now')
       IN  installments' = [installments EXCEPT ![req[r].arg.installment_id] =
              [@ EXCEPT !.paid_amount = set.paid_amount,
                        !.remaining_amount = set.remaining_amount,
                        !.status = set.status,
                        !.paid_date = set.paid_date,
                        !.payment_ids = Append(@, req[r].loc.payment_id)]]
    /\ req' = [req EXCEPT ![r].pc = "update_invoice"]
    /\ UNCHANGED << orders, invoices, payments, installment_schedules,
                    audit_logs, nOps, issued >>

pay_installment_update_invoice(r) ==
    /\ At(r, "pay_installment", "update_invoice")
    /\ LET set == InvoiceAfterInstallmentPayment(req[r].loc.invoice, req[r].loc.amount)
       IN  invoices' = [invoices EXCEPT ![req[r].loc.installment.invoice_id] =
              [@ EXCEPT !.paid_amount = set.paid_amount,
                        !.remaining_amount = set.remaining_amount,
                        !.status = set.status]]
    /\ req' = [req EXCEPT ![r].pc = "audit"]
    /\ UNCHANGED << orders, payments, installment_schedules, installments,
                    audit_logs, now, nOps, issued >>

\* create_audit_log(log_type=AuditLogType.PAYMENT_RECEIVED, ...)
pay_installment_audit(r) ==
    /\ At(r, "pay_installment", "audit")
    /\ IF "PAYMENT_RECEIVED" \in AuditLogType
       THEN /\ audit_logs' = create_audit_log("PAYMENT_RECEIVED", "installment",
                                req[r].arg.installment_id, req[r].loc.amount)
            /\ req' = [req EXCEPT ![r] = Finished(@, "200 Payment recorded successfully")]
       ELSE /\ audit_logs' = audit_logs
            /\ req' = [req EXCEPT ![r] = Finished(@, "500 AttributeError")]
    /\ UNCHANGED << orders, invoices, payments, installment_schedules,
                    installments, now, nOps, issued >>


(* ------------------------ reschedule_installment ----------------------- *)
\* A handler that does not look at the status it read; C14 does not hold of it.
reschedule_installment_Unchecked(r, i, new_due_date) ==
    /\ CanStart(r)
    /\ i \in DOMAIN installments
    /\ nOps' = nOps + 1
    /\ req' = [req EXCEPT ![r] =
          [kind |-> "reschedule_installment", pc |-> "update", resp |-> "none",
           arg |-> [installment_id |-> i, new_due_date |-> new_due_date,
                    reason |-> "reason", user |-> "accountant"],
           loc |-> [installment |-> installments[i]]]]
    /\ UNCHANGED << db, now, issued >>

\* POST /installments/{installment_id}/reschedule (the handler registered
\* first for the path): find the installment, reject a paid one.
reschedule_installment(r, i, new_due_date) ==
    /\ CanStart(r)
    /\ i \in DOMAIN installments
    /\ nOps' = nOps + 1
    /\ LET rq == [kind |-> "reschedule_installment", pc |-> "update", resp |-> "none",
                  arg |-> [installment_id |-> i, new_due_date |-> new_due_date,
                           reason |-> "reason", user |-> "accountant"],
                  loc |-> [installment |-> installments[i]]]
       IN  req' = [req EXCEPT ![r] =
                     IF installments[i].status = "paid"
                     THEN Finished(rq, "400 Cannot reschedule paid installment")
                     ELSE rq]
    /\ UNCHANGED << db, now, issued >>

\* An update that keeps the status and stores the new date as the prior one;
\* C13 does not hold of it.
reschedule_installment_update_Lossy(r) ==
    /\ At(r, "reschedule_installment", "update")
    /\ installments' = [installments EXCEPT ![req[r].arg.installment_id] =
          [@ EXCEPT !.due_date = req[r].arg.new_due_date,
                    !.rescheduled_from = req[r].arg.new_due_date,
                    !.reschedule_reason = req[r].arg.reason,
                    !.rescheduled_by = req[r].arg.user]]
    /\ req' = [req EXCEPT ![r].pc = "audit"]
    /\ UNCHANGED << orders, invoices, payments, installment_schedules,
                    audit_logs, now, nOps, issued >>

reschedule_installment_update(r) ==
    /\ At(r, "reschedule_installment", "update")
    /\ installments' = [installments EXCEPT ![req[r].arg.installment_id] =
          [@ EXCEPT !.due_date = req[r].arg.new_due_date,
                    !.rescheduled_from = req[r].loc.installment.due_date,
                    !.reschedule_reason = req[r].arg.reason,
                    !.rescheduled_by = req[r].arg.user,
                    !.status = "upcoming"]]
    /\ req' = [req EXCEPT ![r].pc = "audit"]
    /\ UNCHANGED << orders, invoices, payments, installment_schedules,
                    audit_logs, now, nOps, issued >>

\* create_audit_log(log_type=AuditLogType.INVOICE_MODIFIED, ...)
reschedule_installment_audit(r) ==
    /\ At(r, "reschedule_installment", "audit")
    /\ IF "INVOICE_MODIFIED" \in AuditLogType
       THEN /\ audit_logs' = create_audit_log("INVOICE_MODIFIED", "installment",
                                req[r].arg.installment_id, 0)
            /\ req' = [req EXCEPT ![r] = Finished(@, "200 Installment rescheduled successfully")]
       ELSE /\ audit_logs' = audit_logs
            /\ req' = [req EXCEPT ![r] = Finished(@, "500 AttributeError")]
    /\ UNCHANGED << orders, invoices, payments, installment_schedules,
                    installments, now, nOps, issued >>

(* ---------------------- update_installment_statuses -------------------- *)
\* db.installments.find({"status": {"$in": statuses}}).to_list(None): the
\* matching documents (the fields the sweep reads) in collection order.
FindByStatus(statuses) ==
    LET ids == SelectSeq([k \in 1 .. Len(installments) |-> k],
                         LAMBDA k : installments[k].status \in statuses)
    IN  [n \in 1 .. Len(ids) |->
            [id |-> ids[n],
             due_date |-> installments[ids[n]].due_date,
             schedule_id |-> installments[ids[n]].schedule_id]]

\* The first loop's test: due_date.date() <= now.date()
IsDue(inst, at) == DateOf(inst.due_date.t) <= DateOf(at)

\* A second loop that moves an installment one status per run (due to grace,
\* grace to overdue); C11 and C12 do not hold of it.
LateStatus_Stepwise(inst, schedules, at) ==
    LET grace_days == IF inst.schedule_id \in DOMAIN schedules
                      THEN schedules[inst.schedule_id].grace_period_days
                      ELSE DefaultGraceDays
        grace_end == inst.due_date.t + grace_days * TicksPerDay
    IN  IF ~inst.due_date.tz THEN "TypeError"
        ELSE IF at > grace_end
             THEN (IF installments[inst.id].status = "due" THEN "grace" ELSE "overdue")
        ELSE IF at > inst.due_date.t /\ at <= grace_end THEN "grace"
        ELSE "none"

\* The second loop's body for one installment: the status it writes, "none"
\* when it writes nothing, "TypeError" when now (offset-aware) is compared
\* with a due date parsed from a string without an offset.
LateStatus(inst, schedules, at) ==
    LET grace_days == IF inst.schedule_id \in DOMAIN schedules
                      THEN schedules[inst.schedule_id].grace_period_days
                      ELSE DefaultGraceDays
        grace_end == inst.due_date.t + grace_days * TicksPerDay
    IN  IF ~inst.due_date.tz THEN "TypeError"
        ELSE IF at > grace_end THEN "overdue"
        ELSE IF at > inst.due_date.t /\ at <= grace_end THEN "grace"
        ELSE "none"

\* POST /installments/update-statuses: now is read, the schedules are loaded.
\* loc.rerun records that the previous request of this handler slot was a run
\* of the sweep and that the clock has not moved since.
update_installment_statuses(r) ==
    /\ CanStart(r)
    /\ nOps' = nOps + 1
    /\ \E t \in now .. MaxNow : ClockRead(t)
    /\ req' = [req EXCEPT ![r] =
          [kind |-> "update_installment_statuses", pc |-> "find_upcoming",
           resp |-> "none", arg |-> [now |-> now'],
           loc |-> [schedules |-> installment_schedules, todo |-> << >>,
                    rerun |-> /\ req[r].kind = "update_installment_statuses"
                              /\ req[r].pc = "done"
                              /\ now' = now]]]
    /\ UNCHANGED << db, issued >>

update_installment_statuses_find_upcoming(r) ==
    /\ At(r, "update_installment_statuses", "find_upcoming")
    /\ req' = [req EXCEPT ![r].pc = "upcoming",
                          ![r].loc.todo = FindByStatus({"upcoming"})]
    /\ UNCHANGED << db, now, nOps, issued >>

\* First loop: the next installment of the list that is due is set to "due".
update_installment_statuses_set_due(r) ==
    /\ At(r, "update_installment_statuses", "upcoming")
    /\ LET todo == req[r].loc.todo
           hits == { k \in DOMAIN todo : IsDue(todo[k], req[r].arg.now) }
       IN  /\ hits # {}
           /\ LET k == CHOOSE x \in hits : \A y \in hits : x <= y
              IN  /\ installments' = [installments EXCEPT ![todo[k].id].status = "due"]
                  /\ req' = [req EXCEPT ![r].loc.todo = SubSeq(todo, k + 1, Len(todo))]
    /\ UNCHANGED << orders, invoices, payments, installment_schedules,
                    audit_logs, now, nOps, issued >>

\* The first loop is over: the due and grace installments are loaded.
update_installment_statuses_find_due(r) ==
    /\ At(r, "update_installment_statuses", "upcoming")
    /\ \A k \in DOMAIN req[r].loc.todo : ~IsDue(req[r].loc.todo[k], req[r].arg.now)
    /\ req' = [req EXCEPT ![r].pc = "due",
                          ![r].loc.todo = FindByStatus({"due", "grace"})]
    /\ UNCHANGED << db, now, nOps, issued >>

\* Second loop: the next installment of the list that changes is written, or
\* the comparison raises.
update_installment_statuses_set_late(r) ==
    /\ At(r, "update_installment_statuses", "due")
    /\ LET todo == req[r].loc.todo
           hits == { k \in DOMAIN todo :
                       LateStatus(todo[k], req[r].loc.schedules, req[r].arg.now) # "none" }
       IN  /\ hits # {}
           /\ LET k == CHOOSE x \in hits : \A y \in hits : x <= y
                  st == LateStatus(todo[k], req[r].loc.schedules, req[r].arg.now)
              IN  IF st = "TypeError"
                  THEN /\ installments' = installments
                       /\ req' = [req EXCEPT ![r] = Finished(@, "500 TypeError")]
                  ELSE /\ installments' = [installments EXCEPT ![todo[k].id].status = st]
                       /\ req' = [req EXCEPT ![r].loc.todo = SubSeq(todo, k + 1, Len(todo))]
    /\ UNCHANGED << orders, invoices, payments, installment_schedules,
                    audit_logs, now, nOps, issued >>

update_installment_statuses_return(r) ==
    /\ At(r, "update_installment_statuses", "due")
    /\ \A k \in DOMAIN req[r].loc.todo :
          LateStatus(req[r].loc.todo[k], req[r].loc.schedules, req[r].arg.now) = "none"
    /\ req' = [req EXCEPT ![r] = Finished(@, "200 Updated installment statuses")]
    /\ UNCHANGED << db, now, nOps, issued >>

(* --------------------------- specification ----------------------------- *)
\* A request arrives and its handler runs to its first await.
Arrive(r) ==
    \/ \E o \in 1 .. MaxOrders : approve_order(r, o)
    \/ \E o \in 1 .. MaxOrders, st \in StatusInputs : update_order_status(r, o, st)
    \/ \E inv \in 1 .. Len(invoices), a \in PayAmounts : create_payment(r, inv, a)
    \/ \E i \in 1 .. Len(installments), a \in PayAmounts : pay_installment(r, i, a)
    \/ \E i \in 1 .. Len(installments), d \in NewDueDates : reschedule_installment(r, i, d)
    \/ update_installment_statuses(r)

\* A handler in flight resumes after an await.
Resume(r) ==
    \/ approve_order_update(r)
    \/ approve_order_find_updated(r)
    \/ create_invoice_from_order_number(r)
    \/ create_invoice_from_order_insert(r)
    \/ create_invoice_from_order_payment_number(r)
    \/ create_invoice_from_order_insert_payment(r)
    \/ create_invoice_from_order_audit_payment(r)
    \/ create_invoice_from_order_insert_schedule(r)
    \/ create_invoice_from_order_insert_installment(r)
    \/ create_invoice_from_order_audit_invoice(r)
    \/ approve_order_return(r)
    \/ update_order_status_update(r)
    \/ create_payment_number(r)
    \/ create_payment_insert(r)
    \/ create_payment_update_invoice(r)
    \/ create_payment_audit(r)
    \/ pay_installment_find_invoice(r)
    \/ pay_installment_number(r)
    \/ pay_installment_insert(r)
    \/ pay_installment_update_installment(r)
    \/ pay_installment_update_invoice(r)
    \/ pay_installment_audit(r)
    \/ reschedule_installment_update(r)
    \/ reschedule_installment_audit(r)
    \/ update_installment_statuses_find_upcoming(r)
    \/ update_installment_statuses_set_due(r)
    \/ update_installment_statuses_find_due(r)
    \/ update_installment_statuses_set_late(r)
    \/ update_installment_statuses_return(r)

Environment ==
    \E o \in OrderInputs : order_submitted(o)

\* Requests are served concurrently.
Next ==
    \/ Environment
    \/ \E r \in ReqIds : Arrive(r) \/ Resume(r)

Spec == Init /\ [][Next]_vars

\* One request at a time: a request arrives only when no handler is in flight.
Quiet == \A r \in ReqIds : Free(r)

SeqNext ==
    \/ Environment
    \/ \E r \in ReqIds : (Quiet /\ Arrive(r)) \/ Resume(r)

SeqSpec == Init /\ [][SeqNext]_vars

(* ------------------- monthly due dates on the calendar ----------------- *)
\* The monthly branch of create_invoice_from_order applied to first due dates
\* given as calendar dates: the order is in orders, the due dates it computes
\* are appended to installments, a ValueError of due_date.replace ends the
\* computation (req[1] records it).
CalYears == {2023, 2024, 2099, 2100}

CalDates ==
    { d \in [year : CalYears, month : 1 .. 12, day : 28 .. 31] : ValidDate(d) }

CalInit ==
    /\ orders \in { << [first_due_date |-> d, schedule_type |-> "monthly",
                         installments_count |-> MaxMonthly] >> : d \in CalDates }
    /\ invoices = << >>
    /\ payments = << >>
    /\ installment_schedules = << >>
    /\ installments = << >>
    /\ audit_logs = << >>
    /\ req = [r \in ReqIds |-> Idle]
    /\ now = 0
    /\ nOps = 0
    /\ issued = [invoices |-> << >>, payments |-> << >>]

\* One pass of the loop for a monthly schedule: the due date of installment
\* i + 1 is computed.
monthly_due_date(i) ==
    /\ i = Len(installments)
    /\ i < orders[1].installments_count
    /\ req[1].pc = "idle"
    /\ ValidDate(MonthlyDate(orders[1].first_due_date, i))
    /\ installments' = Append(installments,
          [installment_number |-> i + 1,
           due_date |-> MonthlyDate(orders[1].first_due_date, i)])
    /\ UNCHANGED << orders, invoices, payments, installment_schedules,
                    audit_logs, req, now, nOps, issued >>

\* due_date.replace raises ValueError: create_invoice_from_order ends.
monthly_due_date_raises(i) ==
    /\ i = Len(installments)
    /\ i < orders[1].installments_count
    /\ req[1].pc = "idle"
    /\ ~ValidDate(MonthlyDate(orders[1].first_due_date, i))
    /\ req' = [req EXCEPT ![1] =
          [kind |-> "create_invoice_from_order", pc |-> "done",
           resp |-> "ValueError", arg |-> << >>, loc |-> << >>]]
    /\ UNCHANGED << db, now, nOps, issued >>

CalNext ==
    \/ \E i \in 0 .. MaxMonthly - 1 : monthly_due_date(i)
    \/ \E i \in 0 .. MaxMonthly - 1 : monthly_due_date_raises(i)

CalSpec == CalInit /\ [][CalNext]_vars


(* -------------------------- clinic credit score ------------------------ *)
\* get_clinic_credit_score applied to installment histories of one clinic: the
\* history is in installments, the clock stands at ScoreNow, req[1] takes the
\* response.  (The score and rating of the response are also upserted into
\* clinic_credit_scores, a collection no other handler reads.)
MaxOnTime == 11
MaxOverdue == 20
ScoreNow == 16

\* An installment of the history: the fields the score reads, and paid_date.
HistoryItem(status, due, paid, from) ==
    [status |-> status, due_date |-> [t |-> due, tz |-> TRUE],
     paid_date |-> paid, rescheduled_from |-> from]

Repeat(x, n) == [k \in 1 .. n |-> x]

\* Paid before the due date / two days after it, never rescheduled or
\* rescheduled once; overdue since due date d; not yet due.
Histories ==
    { Repeat(HistoryItem("paid", 8, 6, NoDate), a)
        \o Repeat(HistoryItem("paid", 8, 12, NoDate), b)
        \o Repeat(HistoryItem("paid", 8, 6, [t |-> 2, tz |-> TRUE]), c)
        \o Repeat(HistoryItem("paid", 8, 12, [t |-> 2, tz |-> TRUE]), e)
        \o Repeat(HistoryItem("overdue", d, -1, NoDate), f)
        \o Repeat(HistoryItem("upcoming", 20, -1, NoDate), g) :
        a \in {0, 1, MaxOnTime}, b \in {0, 1}, c \in {0, 1}, e \in {0, 1},
        d \in {0, 14}, f \in {0, 1, 4, 8, MaxOverdue}, g \in {0, 1} }

ScoreInit ==
    /\ orders = << >>
    /\ invoices = << >>
    /\ payments = << >>
    /\ installment_schedules = << >>
    /\ installments \in Histories
    /\ audit_logs = << >>
    /\ req = [r \in ReqIds |-> Idle]
    /\ now = ScoreNow
    /\ nOps = 0
    /\ issued = [invoices |-> << >>, payments |-> << >>]

\* The loop over the clinic's installments: the four counters after it.
RECURSIVE ScoreTally(_, _)
ScoreTally(insts, at) ==
    IF insts = << >>
    THEN [paid_on_time |-> 0, paid_late |-> 0, overdue |-> 0, total_overdue_days |-> 0]
    ELSE LET inst == Head(insts)
             rest == ScoreTally(Tail(insts), at)
             days_late == (at - inst.due_date.t) \div TicksPerDay
         IN  IF inst.status = "paid"
             THEN IF inst.rescheduled_from = NoDate
                  THEN [rest EXCEPT !.paid_on_time = @ + 1]
                  ELSE [rest EXCEPT !.paid_late = @ + 1]
             ELSE IF inst.status = "overdue"
             THEN [rest EXCEPT !.overdue = @ + 1,
                               !.total_overdue_days =
                                   @ + (IF inst.due_date.tz THEN Max0(days_late) ELSE 0)]
             ELSE rest

\* score = 100 - ... , clamped between 0 and 100
CreditScore(tally) ==
    LET score == 100 - tally.overdue * 5 - (tally.total_overdue_days \div 7)
                     - tally.paid_late * 2 + Min(tally.paid_on_time * 2, 20)
    IN  Max0(Min(100, score))

Rating(score) ==
    IF score >= 90 THEN "A"
    ELSE IF score >= 75 THEN "B"
    ELSE IF score >= 60 THEN "C"
    ELSE IF score >= 40 THEN "D"
    ELSE "F"

\* GET /clinics/{clinic_id}/credit-score
get_clinic_credit_score ==
    /\ req[1].pc = "idle"
    /\ LET score == CreditScore(ScoreTally(installments, now))
       IN  req' = [req EXCEPT ![1] =
              [kind |-> "get_clinic_credit_score", pc |-> "done",
               resp |-> IF installments = << >>
                        THEN [credit_score |-> 100, rating |-> "A"]
                        ELSE [credit_score |-> score, rating |-> Rating(score)],
               arg |-> << >>, loc |-> << >>]]
    /\ UNCHANGED << db, now, nOps, issued >>

ScoreNext == get_clinic_credit_score

ScoreSpec == ScoreInit /\ [][ScoreNext]_vars


(* ------------------------------- claims -------------------------------- *)
InFlight(r, kind) == req[r].kind = kind /\ req[r].pc # "done"

\* C1: every invoice satisfies paid_amount + remaining_amount = total_amount
\* in every reachable state, also when an invoice with installments is paid
\* through create_payment before one of its installments is paid.
C1_InvoiceConservation ==
    \A k \in DOMAIN invoices :
        invoices[k].paid_amount + invoices[k].remaining_amount
            = invoices[k].total_amount

\* C2: per entity type the numbers get_next_serial_number returns are strictly
\* increasing, so no two invoices share an invoice_number and no two payments
\* share a payment_number.
C2_SerialNumbersIncrease ==
    /\ \A e \in {"invoices", "payments"} :
          \A i, j \in DOMAIN issued[e] : i < j => issued[e][i] < issued[e][j]
    /\ \A i, j \in DOMAIN invoices :
          i # j => invoices[i].invoice_number # invoices[j].invoice_number
    /\ \A i, j \in DOMAIN payments :
          i # j => payments[i].payment_number # payments[j].payment_number

\* C3: in every reachable state an installment has status "paid" exactly when
\* its remaining_amount is 0, whatever pay_installment, reschedule_installment
\* and update_installment_statuses calls came before.
C3_PaidIffNothingRemains ==
    \A k \in DOMAIN installments :
        installments[k].status = "paid" <=> installments[k].remaining_amount = 0

C5_InvoiceStatusFromRemaining ==
    \A k \in DOMAIN invoices :
        LET inv == invoices[k] IN
        inv.status # "cancelled" =>
            /\ inv.status \in {"pending", "partial", "paid"}
            /\ (inv.remaining_amount = 0 => inv.status = "paid")
            /\ (0 < inv.remaining_amount /\ inv.remaining_amount < inv.total_amount
                  => inv.status = "partial")
            /\ (inv.remaining_amount = inv.total_amount /\ inv.remaining_amount # 0
                  => inv.status = "pending")

\* C6: a pay_installment request whose amount exceeds the remaining_amount of
\* the installment it read writes nothing to any collection.
C6_OverpaymentOfInstallmentChangesNothing ==
    [][ \A r \in ReqIds :
          ( /\ InFlight(r, "pay_installment")
            /\ req[r].arg.amount > req[r].loc.installment.remaining_amount
            /\ req'[r] # req[r] )
          => UNCHANGED db ]_vars

\* C7: create_payment with an amount above the invoice's remaining_amount ends
\* at once with the "exceeds remaining amount" error; no payment number is
\* issued and no collection changes.
C7_OverpaymentOfInvoiceRejected ==
    [][ \A r \in ReqIds, inv \in 1 .. Len(invoices), a \in PayAmounts :
          ( create_payment(r, inv, a) /\ a > invoices[inv].remaining_amount )
          => /\ req'[r].pc = "done"
             /\ req'[r].resp = "400 exceeds remaining amount"
             /\ UNCHANGED << db, issued >> ]_vars

\* C7 witness: a create_payment request has been rejected for exceeding the
\* remaining amount.
C7_Witness ==
    \E r \in ReqIds :
        /\ req[r].kind = "create_payment"
        /\ req[r].pc = "done"
        /\ req[r].resp = "400 exceeds remaining amount"

\* C8: a payment request with amount <= 0, to create_payment or to
\* pay_installment, writes nothing to any collection.
C8_NonPositiveAmountChangesNothing ==
    [][ \A r \in ReqIds :
          ( /\ InFlight(r, "create_payment") \/ InFlight(r, "pay_installment")
            /\ req[r].arg.amount <= 0
            /\ req'[r] # req[r] )
          => UNCHANGED db ]_vars

\* C9: a pay_installment request applying a (0 < a <= remaining_amount of the
\* installment) moves a from remaining to paid on the installment and on the
\* parent invoice, and the installment is "paid" exactly when nothing remains.
C9_InstallmentPaymentPropagates ==
    [][ \A r \in ReqIds :
          LET a == req[r].arg.amount
              i == req[r].arg.installment_id
              inv == req[r].loc.installment.invoice_id
          IN  ( /\ InFlight(r, "pay_installment")
                /\ 0 < a /\ a <= req[r].loc.installment.remaining_amount )
              => /\ pay_installment_update_installment(r) =>
                      /\ installments'[i].paid_amount = installments[i].paid_amount + a
                      /\ installments'[i].remaining_amount
                            = installments[i].remaining_amount - a
                      /\ (installments'[i].status = "paid"
                            <=> installments'[i].remaining_amount = 0)
                 /\ pay_installment_update_invoice(r) =>
                      /\ invoices'[inv].paid_amount = invoices[inv].paid_amount + a
                      /\ invoices'[inv].remaining_amount
                            = invoices[inv].remaining_amount - a ]_vars

\* C10: "paid" is terminal for an installment: no later write, in particular
\* none of a sweep or a reschedule that read the installment before the
\* payment, takes the status away from "paid".
C10_PaidIsTerminal ==
    [][ \A k \in DOMAIN installments :
          installments[k].status = "paid" => installments'[k].status = "paid" ]_vars

\* C11: with requests served one after the other, a run of
\* update_installment_statuses that directly follows another run, at the same
\* clock value, changes no stored field of any collection.
C11_SweepIdempotent ==
    [][ \A r \in ReqIds :
          ( /\ InFlight(r, "update_installment_statuses")
            /\ req[r].loc.rerun
            /\ req'[r] # req[r] )
          => UNCHANGED db ]_vars

\* C11 witness: the second run has loaded an installment that the first run
\* left in its grace period (the second run writes "grace" to it again).
C11_Witness ==
    \E r \in ReqIds :
        /\ At(r, "update_installment_statuses", "due")
        /\ req[r].loc.rerun
        /\ Len(req[r].loc.todo) > 0
        /\ installments[req[r].loc.todo[1].id].status = "grace"
        /\ LateStatus(req[r].loc.todo[1], req[r].loc.schedules, req[r].arg.now) = "grace"

\* C12: when a run of update_installment_statuses at clock now ends (requests
\* served one after the other), no installment is left in status upcoming, due
\* or grace with now > due_date + grace_period_days of its schedule: each of
\* them has become "overdue".
C12_OverdueAfterOneRun ==
    [][ \A r \in ReqIds :
          ( /\ InFlight(r, "update_installment_statuses")
            /\ req'[r].pc = "done" )
          => \A k \in DOMAIN installments' :
                LET inst == installments'[k]
                    grace_days == installment_schedules'[inst.schedule_id].grace_period_days
                IN  req[r].arg.now > inst.due_date.t + grace_days * TicksPerDay
                      => inst.status \notin {"upcoming", "due", "grace"} ]_vars

\* C13: reschedule_installment on an installment that is not "paid" is not
\* rejected, and when the request ends (requests served one after the other)
\* the installment is "upcoming", is due at the new date, and holds the due
\* date it had before the call in rescheduled_from, with the reason and the
\* acting user.
C13_RescheduleResets ==
    [][ \A r \in ReqIds :
          /\ \A i \in DOMAIN installments, d \in NewDueDates :
                ( reschedule_installment(r, i, d) /\ installments[i].status # "paid" )
                => /\ req'[r].pc # "done"
                   /\ req'[r].loc.installment = installments[i]
          /\ ( InFlight(r, "reschedule_installment") /\ req'[r].pc = "done" )
                => LET inst == installments'[req[r].arg.installment_id]
                   IN  /\ inst.status = "upcoming"
                       /\ inst.due_date = req[r].arg.new_due_date
                       /\ inst.rescheduled_from = req[r].loc.installment.due_date
                       /\ inst.reschedule_reason = req[r].arg.reason
                       /\ inst.rescheduled_by = req[r].arg.user ]_vars

\* C13 witness: an installment that the sweep had set to "due" has been
\* rescheduled: it is "upcoming" again and keeps the earlier due date.
C13_Witness ==
    \E r \in ReqIds :
        /\ At(r, "reschedule_installment", "audit")
        /\ req[r].loc.installment.status = "due"
        /\ installments[req[r].arg.installment_id].status = "upcoming"
        /\ installments[req[r].arg.installment_id].due_date = req[r].arg.new_due_date
        /\ installments[req[r].arg.installment_id].rescheduled_from
              = req[r].loc.installment.due_date

\* C14: reschedule_installment on an installment whose status is "paid" ends
\* at once with an error; the installment and the audit log (and every other
\* collection) are unchanged.
C14_ReschedulePaidRejected ==
    [][ \A r \in ReqIds, i \in DOMAIN installments, d \in NewDueDates :
          ( reschedule_installment(r, i, d) /\ installments[i].status = "paid" )
          => /\ req'[r].pc = "done"
             /\ req'[r].resp = "400 Cannot reschedule paid installment"
             /\ UNCHANGED db ]_vars

\* C14 witness: a reschedule request for a paid installment has been rejected.
C14_Witness ==
    \E r \in ReqIds :
        /\ req[r].kind = "reschedule_installment"
        /\ req[r].pc = "done"
        /\ req[r].resp = "400 Cannot reschedule paid installment"
        /\ \E k \in DOMAIN installments :
              /\ installments[k].status = "paid"
              /\ installments[k].rescheduled_from = NoDate

\* C15: when approve_order ends for an order with payment_status partial,
\* 0 < amount_paid < total_amount, a payment method and a monthly plan of n
\* installments (requests served one after the other), there is one invoice of
\* the order with paid_amount = amount_paid, remaining_amount = total_amount -
\* amount_paid and status partial, one payment of amount_paid for it, and n
\* installments of (total_amount - amount_paid) / n each, all "upcoming", due
\* at first_due_date plus 0 .. n-1 months.
C15_PartialOrderWithPlan ==
    [][ \A r \in ReqIds :
          ( /\ At(r, "approve_order", "notify")
            /\ req'[r].pc = "done" )
          => LET o == orders'[req[r].arg.order_id]
                 n == o.installments_count
                 invs == { k \in DOMAIN invoices' :
                             invoices'[k].order_id = req[r].arg.order_id }
             IN  ( /\ o.payment_status = "partial"
                   /\ 0 < o.amount_paid /\ o.amount_paid < o.total_amount
                   /\ o.payment_method # "none"
                   /\ o.first_due_date # NoDate
                   /\ o.schedule_type = "monthly"
                   /\ n >= 1 )
                 => /\ Cardinality(invs) = 1
                    /\ \A k \in invs :
                          LET pays == { p \in DOMAIN payments' :
                                          payments'[p].invoice_id = k }
                              insts == { j \in DOMAIN installments' :
                                           installments'[j].invoice_id = k }
                          IN  /\ invoices'[k].paid_amount = o.amount_paid
                              /\ invoices'[k].remaining_amount
                                    = o.total_amount - o.amount_paid
                              /\ invoices'[k].status = "partial"
                              /\ Cardinality(pays) = 1
                              /\ \A p \in pays : payments'[p].amount = o.amount_paid
                              /\ Cardinality(insts) = n
                              /\ \A j \in insts :
                                    /\ installments'[j].amount * n
                                          = o.total_amount - o.amount_paid
                                    /\ installments'[j].status = "upcoming"
                                    /\ installments'[j].due_date
                                          = InstallmentDueDate(o.first_due_date,
                                               "monthly", o.interval_days,
                                               installments'[j].installment_number - 1)
                 ]_vars

\* An amount taken in whole cents (half a cent and more rounds up).
RoundToCents(x) == (2 * x + UnitsPerCent) \div (2 * UnitsPerCent)

RECURSIVE SumCents(_, _)
SumCents(insts, S) ==
    IF S = {} THEN 0
    ELSE LET j == CHOOSE x \in S : TRUE
         IN  RoundToCents(insts[j].amount) + SumCents(insts, S \ {j})

\* C16: when create_invoice_from_order has generated the installments of a
\* schedule (count >= 1), their amounts, taken in whole cents, add up to the
\* schedule's total_amount, which is the invoice's remaining_amount at that
\* time; also when the remaining amount is not a multiple of the count.
C16_InstallmentsSumToTotal ==
    [][ \A r \in ReqIds :
          ( /\ At(r, "approve_order", "insert_installment")
            /\ req'[r].pc = "audit_invoice" )
          => LET sid == req[r].loc.schedule_id
                 schedule == installment_schedules'[sid]
                 S == { j \in DOMAIN installments' :
                          installments'[j].schedule_id = sid }
             IN  /\ schedule.total_amount
                       = invoices'[schedule.invoice_id].remaining_amount
                 /\ schedule.total_amount % UnitsPerCent = 0
                 /\ SumCents(installments', S) * UnitsPerCent
                       = schedule.total_amount ]_vars

\* The date i months after first, the day clamped to the last day of that
\* month (Gregorian calendar).
MonthsAfter(first, i) ==
    LET m == first.month + i
        year == first.year + (m - 1) \div 12
        month == ((m - 1) % 12) + 1
    IN  [year |-> year, month |-> month,
         day |-> Min(first.day, DaysInMonth(year, month))]

\* C17: for a monthly schedule the due date of installment i (0-based) is
\* computed (no error) and lies i calendar months after first_due_date, on the
\* same day of the month clamped to the last valid day of that month under the
\* Gregorian leap-year rules, across a change of year as well.
C17_MonthlyDueDates ==
    /\ \A r \in ReqIds : req[r].resp # "ValueError"
    /\ \A k \in DOMAIN installments :
          installments[k].due_date
            = MonthsAfter(orders[1].first_due_date, installments[k].installment_number - 1)

\* C18: no order has more than one invoice, whatever approve_order and
\* update_order_status requests were served, one after the other or interleaved.
C18_OneInvoicePerOrder ==
    \A o \in DOMAIN orders :
        Cardinality({ k \in DOMAIN invoices : invoices[k].order_id = o }) <= 1

\* C19: when an operation that has written a balance ends - pay_installment
\* after its installment update, create_payment after its invoice update,
\* approve_order after create_invoice_from_order stored an invoice with an
\* upfront payment - audit_logs holds an entry for it (requests served one
\* after the other), whether the operation ends with success or an error.
C19_BalanceChangeIsAudited ==
    [][ \A r \in ReqIds :
          /\ ( /\ InFlight(r, "pay_installment")
               /\ req[r].pc \in {"update_invoice", "audit"}
               /\ req'[r].pc = "done" )
               => \E a \in DOMAIN audit_logs' :
                     /\ audit_logs'[a].entity_type = "installment"
                     /\ audit_logs'[a].entity_id = req[r].arg.installment_id
          /\ ( /\ InFlight(r, "create_payment")
               /\ req[r].pc = "audit"
               /\ req'[r].pc = "done" )
               => \E a \in DOMAIN audit_logs' :
                     /\ audit_logs'[a].entity_type = "payment"
                     /\ audit_logs'[a].entity_id = req[r].loc.payment_id
          /\ ( /\ At(r, "approve_order", "notify")
               /\ req'[r].pc = "done"
               /\ req[r].loc.invoice_id # 0
               /\ invoices'[req[r].loc.invoice_id].payment_method # "none"
               /\ InitialSplit(req[r].loc.order).paid_amount > 0 )
               => \E a \in DOMAIN audit_logs' :
                     \/ /\ audit_logs'[a].entity_type = "invoice"
                        /\ audit_logs'[a].entity_id = req[r].loc.invoice_id
                     \/ /\ audit_logs'[a].entity_type = "payment"
                        /\ payments'[audit_logs'[a].entity_id].invoice_id
                              = req[r].loc.invoice_id ]_vars

RECURSIVE SumAmounts(_, _)
SumAmounts(docs, S) ==
    IF S = {} THEN 0
    ELSE LET j == CHOOSE x \in S : TRUE
         IN  docs[j].amount + SumAmounts(docs, S \ {j})

\* C20: whenever no request is in flight, the paid_amount of every invoice is
\* the sum of the amounts of the payments recorded for that invoice (the
\* upfront amount of the order included, with or without a payment method).
C20_PaidAmountBackedByPayments ==
    Quiet =>
        \A k \in DOMAIN invoices :
            invoices[k].paid_amount
              = SumAmounts(payments, { p \in DOMAIN payments :
                                         payments[p].invoice_id = k })

\* C21: the invoice create_invoice_from_order inserts has the split its
\* order's payment_status gives: full - everything paid, nothing remaining,
\* status paid; partial - paid_amount = min(amount_paid, total_amount), the
\* rest remaining, status partial; otherwise nothing paid, everything
\* remaining, status pending.  Whatever amount_paid was declared, paid_amount
\* is at most total_amount and remaining_amount is not negative.
C21_InitialSplit ==
    [][ \A r \in ReqIds :
          ( /\ At(r, "approve_order", "insert_invoice")
            /\ req'[r].pc # "insert_invoice" )
          => LET o == req[r].loc.order
                 inv == invoices'[Len(invoices')]
             IN  /\ Len(invoices') = Len(invoices) + 1
                 /\ inv.total_amount = o.total_amount
                 /\ o.payment_status = "full"
                       => /\ inv.paid_amount = o.total_amount
                          /\ inv.remaining_amount = 0
                          /\ inv.status = "paid"
                 /\ o.payment_status = "partial"
                       => /\ inv.paid_amount
                                = (IF o.amount_paid <= o.total_amount
                                   THEN o.amount_paid ELSE o.total_amount)
                          /\ inv.remaining_amount = o.total_amount - inv.paid_amount
                          /\ inv.status = "partial"
                 /\ o.payment_status \notin {"full", "partial"}
                       => /\ inv.paid_amount = 0
                          /\ inv.remaining_amount = o.total_amount
                          /\ inv.status = "pending"
                 /\ inv.paid_amount <= inv.total_amount
                 /\ inv.remaining_amount >= 0 ]_vars

\* C21 witness: the invoice of a partial order that declared more than its
\* total has been inserted with everything paid and nothing remaining.
C21_Witness ==
    \E k \in DOMAIN invoices :
        LET o == orders[invoices[k].order_id]
        IN  /\ o.payment_status = "partial"
            /\ o.amount_paid > o.total_amount
            /\ invoices[k].paid_amount = o.total_amount
            /\ invoices[k].remaining_amount = 0
            /\ invoices[k].status = "partial"
            /\ invoices[k].payments = << >>

\* C22: a step of update_installment_statuses that changes the status of an
\* installment takes it from upcoming to due (the date of now not before the
\* date it is due), from due to grace (due_date < now <= due_date +
\* grace_period_days) or from due or grace to overdue (now > due_date +
\* grace_period_days), now being the clock value the run read; so it takes no
\* installment backwards and changes no paid or overdue installment.
C22_SweepTransitions ==
    [][ \A r \in ReqIds :
          ( /\ InFlight(r, "update_installment_statuses")
            /\ req'[r] # req[r] )
          => \A k \in DOMAIN installments :
                installments'[k].status # installments[k].status
                => LET inst == installments[k]
                       old == inst.status
                       new == installments'[k].status
                       at == req[r].arg.now
                       grace_end == inst.due_date.t
                           + installment_schedules[inst.schedule_id].grace_period_days
                               * TicksPerDay
                   IN  \/ /\ old = "upcoming" /\ new = "due"
                          /\ DateOf(at) >= DateOf(inst.due_date.t)
                       \/ /\ old = "due" /\ new = "grace"
                          /\ inst.due_date.t < at /\ at <= grace_end
                       \/ /\ old \in {"due", "grace"} /\ new = "overdue"
                          /\ at > grace_end ]_vars

\* C23: when a run of update_installment_statuses at clock now ends (requests
\* served one after the other), no installment with paid_amount > 0,
\* remaining_amount > 0 and now > due_date + grace_period_days is left in status
\* "partial": a partly paid installment has become "overdue" like an unpaid one.
C23_PartialTurnsOverdue ==
    [][ \A r \in ReqIds :
          ( /\ InFlight(r, "update_installment_statuses")
            /\ req'[r].pc = "done" )
          => \A k \in DOMAIN installments' :
                LET inst == installments'[k]
                    grace_days == installment_schedules'[inst.schedule_id].grace_period_days
                IN  ( /\ inst.paid_amount > 0
                      /\ inst.remaining_amount > 0
                      /\ req[r].arg.now > inst.due_date.t + grace_days * TicksPerDay )
                    => inst.status # "partial" ]_vars

\* C24: when approve_order ends after a step of create_invoice_from_order
\* that follows the invoice insert has failed, the invoice is still stored and
\* the response is not the plain success message: it tells the caller that
\* the steps after the invoice failed.
C24_FailureAfterInvoiceSurfaced ==
    [][ \A r \in ReqIds :
          ( /\ At(r, "approve_order", "notify")
            /\ req'[r].pc = "done"
            /\ req[r].loc.invoice_failed
            /\ req[r].loc.invoice_id # 0 )
          => /\ req[r].loc.invoice_id \in DOMAIN invoices'
             /\ invoices'[req[r].loc.invoice_id].order_id = req[r].arg.order_id
             /\ req'[r].resp # "200 Order approved successfully" ]_vars

\* C25: when create_invoice_from_order has generated the installments of an
\* order with schedule_type custom, there is one installment per pair of the
\* order's custom_installments, in order, with the pair's amount and due date
\* (not remaining_amount / installments_count).
C25_CustomSchedule ==
    [][ \A r \in ReqIds :
          ( /\ At(r, "approve_order", "insert_installment")
            /\ req'[r].pc = "audit_invoice"
            /\ req[r].loc.order.schedule_type = "custom" )
          => LET pairs == req[r].loc.order.custom_installments
                 sid == req[r].loc.schedule_id
                 S == { j \in DOMAIN installments' :
                          installments'[j].schedule_id = sid }
             IN  /\ Cardinality(S) = Len(pairs)
                 /\ \A j \in S :
                       LET n == installments'[j].installment_number
                       IN  /\ n \in DOMAIN pairs
                           /\ installments'[j].amount = pairs[n].amount
                           /\ installments'[j].remaining_amount = pairs[n].amount
                           /\ installments'[j].due_date = pairs[n].due_date ]_vars

\* The installment fields a reschedule may change.
RescheduleFields ==
    {"due_date", "status", "rescheduled_from", "reschedule_reason", "rescheduled_by"}

\* C26: every step of a reschedule_installment request that was not rejected
\* (requests served one after the other) leaves orders, invoices, payments,
\* installment_schedules and every other installment unchanged and changes, of
\* the targeted installment, only due_date, status and the reschedule fields;
\* and when the request ends, one audit entry for the installment has been
\* appended.
C26_RescheduleFrame ==
    [][ \A r \in ReqIds :
          ( /\ InFlight(r, "reschedule_installment")
            /\ req'[r] # req[r] )
          => LET i == req[r].arg.installment_id
             IN  /\ UNCHANGED << orders, invoices, payments, installment_schedules >>
                 /\ DOMAIN installments' = DOMAIN installments
                 /\ \A k \in DOMAIN installments :
                       k # i => installments'[k] = installments[k]
                 /\ \A f \in DOMAIN installments[i] :
                       f \notin RescheduleFields
                         => installments'[i][f] = installments[i][f]
                 /\ req'[r].pc = "done"
                       => /\ Len(audit_logs') = Len(audit_logs) + 1
                          /\ audit_logs'[Len(audit_logs')].entity_type = "installment"
                          /\ audit_logs'[Len(audit_logs')].entity_id = i ]_vars

RECURSIVE SumOverdueDays(_, _, _)
SumOverdueDays(insts, S, at) ==
    IF S = {} THEN 0
    ELSE LET j == CHOOSE x \in S : TRUE
         IN  Max0((at - insts[j].due_date.t) \div TicksPerDay)
               + SumOverdueDays(insts, S \ {j}, at)

\* C27: the response of get_clinic_credit_score carries score = 100
\* - 5 * (overdue installments) - floor(total days overdue / 7)
\* - 2 * (installments paid after their due date)
\* + min(2 * (installments paid by their due date), 20), clamped to 0 .. 100,
\* and the rating of the score's band (A from 90, B from 75, C from 60, D from
\* 40, F below).
C27_CreditScore ==
    req[1].pc = "done" =>
        LET H == installments
            overdue == { k \in DOMAIN H : H[k].status = "overdue" }
            late == { k \in DOMAIN H :
                        H[k].status = "paid" /\ H[k].paid_date > H[k].due_date.t }
            on_time == { k \in DOMAIN H :
                           H[k].status = "paid" /\ H[k].paid_date <= H[k].due_date.t }
            bonus == IF 2 * Cardinality(on_time) <= 20
                     THEN 2 * Cardinality(on_time) ELSE 20
            raw == 100 - 5 * Cardinality(overdue)
                       - SumOverdueDays(H, overdue, now) \div 7
                       - 2 * Cardinality(late) + bonus
            score == IF raw < 0 THEN 0 ELSE IF raw > 100 THEN 100 ELSE raw
            resp == req[1].resp
        IN  /\ resp.credit_score = score
            /\ 0 <= resp.credit_score /\ resp.credit_score <= 100
            /\ resp.rating = (IF score >= 90 THEN "A"
                               ELSE IF score >= 75 THEN "B"
                               ELSE IF score >= 60 THEN "C"
                               ELSE IF score >= 40 THEN "D"
                               ELSE "F")

\* The payments recorded for invoice k.
PaymentsOf(k) == { p \in DOMAIN payments : payments[p].invoice_id = k }

\* The amount of the upfront payment create_invoice_from_order records for
\* invoice k (0 when it records none).
UpfrontOf(k) ==
    LET paid == InitialSplit(orders[invoices[k].order_id]).paid_amount
    IN  IF paid > 0 /\ invoices[k].payment_method # "none" THEN paid ELSE 0

\* C28: whatever the interleaving of payment requests, the amounts of the
\* payments recorded for an invoice add up to at most its total_amount, and
\* once no request is in flight the invoice's paid_amount is the amount paid
\* at its creation plus the amount of every payment that create_payment and
\* pay_installment recorded for it (no update is lost).
C28_ConcurrentPayments ==
    \A k \in DOMAIN invoices :
        /\ SumAmounts(payments, PaymentsOf(k)) <= invoices[k].total_amount
        /\ Quiet =>
              invoices[k].paid_amount
                = InitialSplit(orders[invoices[k].order_id]).paid_amount
                    + SumAmounts(payments, PaymentsOf(k)) - UpfrontOf(k)

\* C29: in every reachable state an invoice with remaining_amount = 0 has no
\* installment with remaining_amount > 0, also after the invoice was paid
\* through create_payment.
C29_NoOpenInstallmentOnPaidInvoice ==
    \A k \in DOMAIN invoices :
        invoices[k].remaining_amount = 0
          => \A j \in DOMAIN installments :
                installments[j].invoice_id = k
                  => installments[j].remaining_amount <= 0

\* C30: in every reachable state every invoice and every installment has
\* paid_amount >= 0, remaining_amount >= 0 and paid_amount at most its total
\* (total_amount of the invoice, amount of the installment), whatever the
\* order declared and whatever amounts were requested.
C30_BalancesWithinBounds ==
    /\ \A k \in DOMAIN invoices :
          /\ invoices[k].paid_amount >= 0
          /\ invoices[k].remaining_amount >= 0
          /\ invoices[k].paid_amount <= invoices[k].total_amount
    /\ \A j \in DOMAIN installments :
          /\ installments[j].paid_amount >= 0
          /\ installments[j].remaining_amount >= 0
          /\ installments[j].paid_amount <= installments[j].amount

====
